---- MODULE Spec2Model ----
(***************************************************************************)
(* Model of scripts/check_spdx_headers.py: the SPDX header checker.        *)
(*                                                                         *)
(* Text is modelled as a sequence of tokens.  A token is one character     *)
(* (" ", "-", a digit, "\n", the byte-order mark "BOM") or one fixed       *)
(* run of non-blank characters that the patterns treat as a unit ("//",    *)
(* "#", the two SPDX markers, a word such as "Acme").  An Optional[T]      *)
(* value is a sequence of length at most one: None is <<>> and the value   *)
(* x is <<x>>.                                                             *)
(***************************************************************************)
EXTENDS Integers, Sequences, FiniteSets, TLC

VARIABLES
    pc,               \* position of main: "start", "loop", "returned", "raised"
    check_all_files,  \* args.all_files
    current_year,     \* args.year
    include_patterns, \* args.include
    exclude_patterns, \* args.exclude
    holder_pattern,   \* Optional: the holder glob of --holder
    changed,          \* the change list: a sequence of <<status, path>>
    idx,              \* number of entries of changed the for loop has consumed
    violations,       \* the violation list of main
    checked_count,
    skipped_count,
    passed_count,
    ret,              \* Optional[int]: the value main returned
    exc,              \* the exception that left main ("" when none)
    rev_parse,        \* what git rev-parse base_ref did: "", "ok", "failed"
    trace,            \* per consumed entry, what the loop body did with it
    last,             \* what the collaborators answered for the latest entry
    call,             \* a direct call of a validate function: its arguments
    result            \* the violations that call appended

vars == <<pc, check_all_files, current_year, include_patterns, exclude_patterns,
          holder_pattern, changed, idx, violations, checked_count, skipped_count, passed_count,
          ret, exc, rev_parse, trace, last, call, result>>

mainVars == <<pc, check_all_files, current_year, include_patterns,
              exclude_patterns, holder_pattern, changed, idx, violations,
              checked_count,
              skipped_count, passed_count, ret, exc, rev_parse,
              trace, last>>

(***************************************************************************)
(* Bounds of the model.                                                    *)
(***************************************************************************)
MaxFiles == 2       \* longest change list explored
YearSpan == 2       \* years explored: 2024 .. 2024 + YearSpan

None == <<>>
Some(x) == <<x>>
IsNone(o) == o = <<>>
Val(o) == o[1]

\* "not o" for an Optional[str]: None and "" are false
Falsy(o) == IF o = <<>> THEN TRUE ELSE o[1] = <<>>

(***************************************************************************)
(* Strings.                                                                *)
(***************************************************************************)
Digits == <<"0", "1", "2", "3", "4", "5", "6", "7", "8", "9">>

IsDigit(t) == \E d \in 1..10 : Digits[d] = t

DigitVal(t) == (CHOOSE d \in 1..10 : Digits[d] = t) - 1

\* str.isspace for one token
IsSpace(t) == t \in {" ", "\n", "\r"}

\* int(text) for a text of decimal digits
RECURSIVE ParseInt(_)
ParseInt(s) ==
    IF s = <<>> THEN 0
    ELSE 10 * ParseInt(SubSeq(s, 1, Len(s) - 1)) + DigitVal(s[Len(s)])

\* f"{n}" for a non-negative int: decimal digits, no padding
RECURSIVE FormatInt(_)
FormatInt(n) ==
    IF n < 10 THEN <<Digits[n + 1]>>
    ELSE FormatInt(n \div 10) \o <<Digits[(n % 10) + 1]>>

\* str.strip(chars): drop the leading and trailing tokens that are in chars
RECURSIVE StripChars(_, _)
StripChars(s, chars) ==
    IF s = <<>> THEN s
    ELSE IF s[1] \in chars THEN StripChars(Tail(s), chars)
    ELSE IF s[Len(s)] \in chars THEN StripChars(SubSeq(s, 1, Len(s) - 1), chars)
    ELSE s

\* str.strip(): drop leading and trailing whitespace
Strip(s) == StripChars(s, {" ", "\n", "\r"})

\* position of the first token at or after i that is not whitespace
RECURSIVE SkipSpace(_, _)
SkipSpace(s, i) ==
    IF i <= Len(s) /\ IsSpace(s[i]) THEN SkipSpace(s, i + 1) ELSE i

\* position of the first "-" of s, 0 when there is none
RECURSIVE Find(_, _, _)
Find(s, t, i) ==
    IF i > Len(s) THEN 0
    ELSE IF s[i] = t THEN i
    ELSE Find(s, t, i + 1)

(***************************************************************************)
(* The two patterns.                                                       *)
(***************************************************************************)
COMMENT_PREFIXES == {"//", "#"}

NoMatch == [ok |-> FALSE, prefix |-> "", years |-> <<>>, holder |-> <<>>]

FourDigits(s, i) ==
    /\ i + 3 <= Len(s)
    /\ \A k \in i..(i + 3) : IsDigit(s[k])

\* position after the years group \d{4}(?:-\d{4})? matched at i (0: no match)
YearsEnd(s, i) ==
    IF ~FourDigits(s, i) THEN 0
    ELSE IF i + 4 <= Len(s) /\ s[i + 4] = "-" /\ FourDigits(s, i + 5)
         THEN i + 9
         ELSE i + 4

\* HEADER_REGEX.match(s): prefix, \s*, marker, \s*, years, \s+, holder (.+), $
HEADER_REGEX(s) ==
    IF Len(s) = 0 \/ s[1] \notin COMMENT_PREFIXES THEN NoMatch
    ELSE LET m == SkipSpace(s, 2) IN
      IF m > Len(s) \/ s[m] # "SPDX-FileCopyrightText:" THEN NoMatch
      ELSE LET y == SkipSpace(s, m + 1)
               e == YearsEnd(s, y) IN
        IF e = 0 THEN NoMatch
        ELSE LET h == SkipSpace(s, e) IN
          IF h = e THEN NoMatch                      \* \s+ needs one blank
          ELSE IF h <= Len(s)
               THEN IF \E k \in h..Len(s) : s[k] = "\n" THEN NoMatch
                    ELSE [ok |-> TRUE, prefix |-> s[1],
                          years |-> SubSeq(s, y, e - 1),
                          holder |-> SubSeq(s, h, Len(s))]
          \* nothing but blanks follows: \s+ gives its last blank back to .+
          ELSE IF h - e >= 2 /\ s[Len(s)] # "\n"
               THEN [ok |-> TRUE, prefix |-> s[1],
                     years |-> SubSeq(s, y, e - 1),
                     holder |-> SubSeq(s, Len(s), Len(s))]
               ELSE NoMatch

\* LICENSE_REGEX.match(s): prefix, \s*, marker, \s*, license (\S.*), $
LICENSE_REGEX(s) ==
    IF Len(s) = 0 \/ s[1] \notin COMMENT_PREFIXES THEN NoMatch
    ELSE LET m == SkipSpace(s, 2) IN
      IF m > Len(s) \/ s[m] # "SPDX-License-Identifier:" THEN NoMatch
      ELSE LET l == SkipSpace(s, m + 1) IN
        IF l > Len(s) \/ (\E k \in l..Len(s) : s[k] = "\n") THEN NoMatch
        ELSE [ok |-> TRUE, prefix |-> s[1], years |-> <<>>,
              holder |-> SubSeq(s, l, Len(s))]

(***************************************************************************)
(* parse_years                                                             *)
(***************************************************************************)
parse_years(year_field) ==
    LET d == Find(year_field, "-", 1) IN
    IF d # 0
    THEN <<ParseInt(SubSeq(year_field, 1, d - 1)),
           Some(ParseInt(SubSeq(year_field, d + 1, Len(year_field))))>>
    ELSE <<ParseInt(year_field), None>>

(***************************************************************************)
(* Violation.  The two messages of a violation are built from the same     *)
(* values, so one record stands for both: kind names the pair of fixed     *)
(* sentences, cited is the year text the first sentence quotes, current    *)
(* is the text after "Current:" and expected the header after "Expected:". *)
(*                                                                         *)
(*   kind                English sentence (message_en)                     *)
(*   NewFileRange        New files must use a single year (no range) ...   *)
(*   NewFileYear         SPDX header year should be {cited} for new files. *)
(*   Predates            File predates current year; update SPDX header    *)
(*                       to use a year range {cited}.                      *)
(*   YearShouldBe        SPDX header year should be {cited}.               *)
(*   EarlierCreation     File has earlier creation year; use range format  *)
(*                       {cited}.                                          *)
(*   InvalidRange        Invalid SPDX year range (start year greater than  *)
(*                       end year).                                        *)
(*   RangeEnd            Update SPDX year range end to {cited}.            *)
(*   RangeStart          Year range should start at the file creation year *)
(*                       {cited}.                                          *)
(*   IdenticalRange      Year range uses identical start and end; use      *)
(*                       single year format instead.                       *)
(*   MissingLicense      Missing SPDX license identifier line below the    *)
(*                       copyright header.                                 *)
(*   MissingHolder       SPDX header format is invalid: missing copyright  *)
(*                       holder.                                           *)
(*   HeaderFormat        SPDX header format is invalid.                    *)
(*   LicenseFormat       SPDX license identifier line format is invalid.   *)
(*   PrefixMismatch      SPDX header and license lines must use the same   *)
(*                       comment prefix.                                   *)
(***************************************************************************)
Violation(path, kind, cited, current, expected) ==
    [path |-> path, kind |-> kind, cited |-> cited, current |-> current,
     expected |-> expected]

\* a violation whose messages are fixed sentences
PlainViolation(path, kind) == Violation(path, kind, <<>>, <<>>, None)

YearKinds == {"NewFileRange", "NewFileYear", "Predates", "YearShouldBe",
              "EarlierCreation", "InvalidRange", "RangeEnd", "RangeStart",
              "IdenticalRange"}

\* f"{a}-{b}"
RangeText(a, b) == FormatInt(a) \o <<"-">> \o FormatInt(b)

\* holder or 'Your Company Name'
HolderOrDefault(holder) ==
    IF Falsy(holder)
    THEN <<"Your", " ", "Company", " ", "Name">>
    ELSE Val(holder)

\* f"SPDX-FileCopyrightText: {years} {holder or 'Your Company Name'}"
CorrectHeader(years, holder) ==
    [years |-> years, holder |-> HolderOrDefault(holder)]

\* header_line.strip() if header_line else 'N/A'
CurrentText(header_line) ==
    IF Falsy(header_line)
    THEN <<"N/A">>
    ELSE Strip(Val(header_line))

YearViolation(path, kind, cited, header_line, years, holder) ==
    Violation(path, kind, cited, CurrentText(header_line),
              Some(CorrectHeader(years, holder)))

\* if not license_ok: violations.append(...)
LicenseRule(path, license_ok) ==
    IF ~license_ok THEN <<PlainViolation(path, "MissingLicense")>> ELSE <<>>

(***************************************************************************)
(* validate_new_file                                                       *)
(***************************************************************************)
NewFileYearRules_AcceptsPast(path, start_year, end_year, cur_year, header_line, holder) ==
    IF ~IsNone(end_year)
    THEN <<YearViolation(path, "NewFileRange", <<>>, header_line,
                         FormatInt(cur_year), holder)>>
    ELSE IF start_year > cur_year
    THEN <<YearViolation(path, "NewFileYear", FormatInt(cur_year),
                         header_line, FormatInt(cur_year), holder)>>
    ELSE <<>>

NewFileYearRules_RangeToCurrent(path, start_year, end_year, cur_year, header_line, holder) ==
    IF ~IsNone(end_year) /\ Val(end_year) # cur_year
    THEN <<YearViolation(path, "NewFileRange", <<>>, header_line,
                         FormatInt(cur_year), holder)>>
    ELSE IF start_year # cur_year /\ IsNone(end_year)
    THEN <<YearViolation(path, "NewFileYear", FormatInt(cur_year),
                         header_line, FormatInt(cur_year), holder)>>
    ELSE <<>>

NewFileYearRules_Always(path, start_year, end_year, cur_year, header_line, holder) ==
    IF ~IsNone(end_year)
    THEN <<YearViolation(path, "NewFileRange", <<>>, header_line,
                         FormatInt(cur_year), holder)>>
    ELSE <<YearViolation(path, "NewFileYear", FormatInt(cur_year),
                         header_line, FormatInt(cur_year), holder)>>

NewFileYearRules(path, start_year, end_year, cur_year, header_line, holder) ==
    IF ~IsNone(end_year)
    THEN <<YearViolation(path, "NewFileRange", <<>>, header_line,
                         FormatInt(cur_year), holder)>>
    ELSE IF start_year # cur_year
    THEN <<YearViolation(path, "NewFileYear", FormatInt(cur_year),
                         header_line, FormatInt(cur_year), holder)>>
    ELSE <<>>

validate_new_file(path, years_field, license_ok, cur_year, header_line, holder, viols) ==
    IF IsNone(years_field) THEN viols
    ELSE LET py == parse_years(Val(years_field)) IN
         viols
         \o NewFileYearRules(path, py[1], py[2], cur_year, header_line, holder)
         \o LicenseRule(path, license_ok)

(***************************************************************************)
(* validate_modified_file                                                  *)
(***************************************************************************)
\* the truth value of creation_year in "creation_year and ..."
Truthy(creation_year) == ~IsNone(creation_year) /\ Val(creation_year) # 0

\* the end_year is None branch
SingleYearRules_StartAsRangeStart(path, start_year, creation_year, cur_year, header_line, holder) ==
    IF start_year # cur_year
    THEN IF Truthy(creation_year) /\ Val(creation_year) < cur_year
         THEN <<YearViolation(path, "Predates",
                              RangeText(start_year, cur_year), header_line,
                              RangeText(start_year, cur_year), holder)>>
         ELSE <<YearViolation(path, "YearShouldBe", FormatInt(cur_year),
                              header_line, FormatInt(cur_year), holder)>>
    ELSE IF Truthy(creation_year) /\ Val(creation_year) < cur_year
    THEN <<YearViolation(path, "EarlierCreation",
                         RangeText(Val(creation_year), cur_year), header_line,
                         RangeText(Val(creation_year), cur_year), holder)>>
    ELSE <<>>

SingleYearRules_CreationNotAfter(path, start_year, creation_year, cur_year, header_line, holder) ==
    IF start_year # cur_year
    THEN IF Truthy(creation_year) /\ Val(creation_year) < cur_year
         THEN <<YearViolation(path, "Predates",
                              RangeText(Val(creation_year), cur_year), header_line,
                              RangeText(Val(creation_year), cur_year), holder)>>
         ELSE <<YearViolation(path, "YearShouldBe", FormatInt(cur_year),
                              header_line, FormatInt(cur_year), holder)>>
    ELSE IF Truthy(creation_year) /\ Val(creation_year) <= cur_year
    THEN <<YearViolation(path, "EarlierCreation",
                         RangeText(Val(creation_year), cur_year), header_line,
                         RangeText(Val(creation_year), cur_year), holder)>>
    ELSE <<>>

SingleYearRules(path, start_year, creation_year, cur_year, header_line, holder) ==
    IF start_year # cur_year
    THEN IF Truthy(creation_year) /\ Val(creation_year) < cur_year
         THEN <<YearViolation(path, "Predates",
                              RangeText(Val(creation_year), cur_year), header_line,
                              RangeText(Val(creation_year), cur_year), holder)>>
         ELSE <<YearViolation(path, "YearShouldBe", FormatInt(cur_year),
                              header_line, FormatInt(cur_year), holder)>>
    ELSE IF Truthy(creation_year) /\ Val(creation_year) < cur_year
    THEN <<YearViolation(path, "EarlierCreation",
                         RangeText(Val(creation_year), cur_year), header_line,
                         RangeText(Val(creation_year), cur_year), holder)>>
    ELSE <<>>

\* if start_year > end_year
RangeOrderRule_NotBefore(path, start_year, end_year, header_line, holder) ==
    IF start_year >= end_year
    THEN <<YearViolation(path, "InvalidRange", <<>>, header_line,
                         RangeText(end_year, start_year), holder)>>
    ELSE <<>>

RangeOrderRule(path, start_year, end_year, header_line, holder) ==
    IF start_year > end_year
    THEN <<YearViolation(path, "InvalidRange", <<>>, header_line,
                         RangeText(end_year, start_year), holder)>>
    ELSE <<>>

\* if end_year != current_year
RangeEndRule(path, start_year, end_year, cur_year, header_line, holder) ==
    IF end_year # cur_year
    THEN <<YearViolation(path, "RangeEnd", FormatInt(cur_year), header_line,
                         RangeText(start_year, cur_year), holder)>>
    ELSE <<>>

RangeStartRule_OnlyEarlier(path, start_year, end_year, creation_year, header_line, holder) ==
    IF Truthy(creation_year) /\ Val(creation_year) < start_year
    THEN <<YearViolation(path, "RangeStart", FormatInt(Val(creation_year)),
                         header_line,
                         RangeText(Val(creation_year), end_year), holder)>>
    ELSE <<>>

\* if creation_year and start_year != creation_year
RangeStartRule(path, start_year, end_year, creation_year, header_line, holder) ==
    IF Truthy(creation_year) /\ start_year # Val(creation_year)
    THEN <<YearViolation(path, "RangeStart", FormatInt(Val(creation_year)),
                         header_line,
                         RangeText(Val(creation_year), end_year), holder)>>
    ELSE <<>>

\* if start_year == end_year
RangeIdenticalRule(path, start_year, end_year, header_line, holder) ==
    IF start_year = end_year
    THEN <<YearViolation(path, "IdenticalRange", <<>>, header_line,
                         FormatInt(start_year), holder)>>
    ELSE <<>>

\* the first of the given lists that is not empty
RECURSIVE FirstNonEmpty(_)
FirstNonEmpty(lists) ==
    IF lists = <<>> THEN <<>>
    ELSE IF Head(lists) # <<>> THEN Head(lists)
    ELSE FirstNonEmpty(Tail(lists))

RangeRules_FailFast(path, start_year, end_year, creation_year, cur_year, header_line, holder) ==
    FirstNonEmpty(<<
        RangeOrderRule(path, start_year, end_year, header_line, holder),
        RangeEndRule(path, start_year, end_year, cur_year, header_line, holder),
        RangeStartRule(path, start_year, end_year, creation_year, header_line, holder),
        RangeIdenticalRule(path, start_year, end_year, header_line, holder)>>)

\* the else branch: four consecutive if statements
RangeRules(path, start_year, end_year, creation_year, cur_year, header_line, holder) ==
    RangeOrderRule(path, start_year, end_year, header_line, holder)
    \o RangeEndRule(path, start_year, end_year, cur_year, header_line, holder)
    \o RangeStartRule(path, start_year, end_year, creation_year, header_line, holder)
    \o RangeIdenticalRule(path, start_year, end_year, header_line, holder)

validate_modified_file(path, years_field, license_ok, creation_year, cur_year, header_line, holder, viols) ==
    IF IsNone(years_field) THEN viols
    ELSE LET py == parse_years(Val(years_field)) IN
         viols
         \o (IF IsNone(py[2])
             THEN SingleYearRules(path, py[1], creation_year, cur_year,
                                  header_line, holder)
             ELSE RangeRules(path, py[1], Val(py[2]), creation_year, cur_year,
                             header_line, holder))
         \o LicenseRule(path, license_ok)

(***************************************************************************)
(* list_changed_files, list_all_files                                      *)
(*                                                                         *)
(* The output of git is a sequence of lines; a line of git diff            *)
(* --name-status is given as its tab-separated parts, the status first.    *)
(***************************************************************************)
StartsWith(s, t) == Len(s) >= 1 /\ s[1] = t

\* one line of the diff output -> the entries it contributes (none or one);
\* a blank line has a single blank part
ChangedEntry(parts) ==
    IF Len(parts) = 0 \/ Strip(parts[1]) = <<>> THEN <<>>
    ELSE IF StartsWith(parts[1], "R") \/ StartsWith(parts[1], "C")
    THEN IF Len(parts) >= 3
         THEN << <<SubSeq(parts[1], 1, 1), parts[3]>> >>
         ELSE <<>>
    ELSE IF Len(parts) >= 2 THEN << <<parts[1], parts[2]>> >>
    ELSE <<>>

RECURSIVE list_changed_files(_)
list_changed_files(diff_output) ==
    IF diff_output = <<>> THEN <<>>
    ELSE ChangedEntry(Head(diff_output)) \o list_changed_files(Tail(diff_output))

RECURSIVE list_all_files(_)
list_all_files(ls_output) ==
    IF ls_output = <<>> THEN <<>>
    ELSE (IF Strip(Head(ls_output)) # <<>>
          THEN << << <<"M">>, Strip(Head(ls_output)) >> >>
          ELSE <<>>)
         \o list_all_files(Tail(ls_output))

(***************************************************************************)
(* extract_header_lines                                                    *)
(***************************************************************************)
HeaderLines == 10       \* range(10)

\* handle.readline() for the i-th call: "" once the file is exhausted
Readline(file, i) == IF i <= Len(file) THEN file[i] ELSE <<>>

AcceptsLicense_BeforeHeader(header_line, license_line, line) ==
    IsNone(license_line) /\ LICENSE_REGEX(line).ok

\* header_line and license_line is None and LICENSE_REGEX.match(line)
AcceptsLicense(header_line, license_line, line) ==
    ~Falsy(header_line) /\ IsNone(license_line) /\ LICENSE_REGEX(line).ok

\* the for loop over lines, from the i-th line on
RECURSIVE ScanLines(_, _, _, _)
ScanLines(lines, i, header_line, license_line) ==
    IF i > Len(lines) THEN <<header_line, license_line>>
    ELSE IF lines[i] = <<>> THEN <<header_line, license_line>>
    ELSE LET line == StripChars(lines[i], {"BOM", "\n", "\r"}) IN
         IF Strip(line) = <<>>
         THEN ScanLines(lines, i + 1, header_line, license_line)
         ELSE IF IsNone(header_line) /\ HEADER_REGEX(line).ok
         THEN ScanLines(lines, i + 1, Some(line), license_line)
         ELSE IF AcceptsLicense(header_line, license_line, line)
         THEN <<header_line, Some(line)>>
         ELSE ScanLines(lines, i + 1, header_line, license_line)

\* read is "ok", "FileNotFoundError", "UnicodeDecodeError" or another error
\* of open(); the errors the function does not catch leave it
extract_header_lines(read, file) ==
    IF read = "ok"
    THEN [raised |-> "",
          lines |-> ScanLines([i \in 1..HeaderLines |-> Readline(file, i)],
                              1, None, None)]
    ELSE IF read \in {"FileNotFoundError", "UnicodeDecodeError"}
    THEN [raised |-> "", lines |-> <<None, None>>]
    ELSE [raised |-> read, lines |-> <<None, None>>]

(***************************************************************************)
(* get_creation_year                                                       *)
(***************************************************************************)
\* log is the outcome of git log: whether it succeeded, and its lines
get_creation_year(log) ==
    IF ~log.ok THEN None
    ELSE IF log.lines = <<>> THEN None
    ELSE Some(ParseInt(log.lines[Len(log.lines)]))

(***************************************************************************)
(* main: the body of the for loop                                          *)
(***************************************************************************)
\* fnmatch.fnmatch(name, pattern) for patterns of literal tokens and "*"
RECURSIVE fnmatch(_, _)
fnmatch(name, pattern) ==
    IF pattern = <<>> THEN name = <<>>
    ELSE IF Head(pattern) = "*"
    THEN fnmatch(name, Tail(pattern))
         \/ (name # <<>> /\ fnmatch(Tail(name), pattern))
    ELSE name # <<>> /\ Head(name) = Head(pattern)
         /\ fnmatch(Tail(name), Tail(pattern))

AnyMatch(name, patterns) ==
    \E k \in 1..Len(patterns) : fnmatch(name, patterns[k])

\* str.upper for the letters of a status
UpperChar(c) ==
    CASE c = "a" -> "A" [] c = "m" -> "M" [] c = "c" -> "C" [] c = "r" -> "R"
      [] OTHER -> c

Upper(s) == [k \in 1..Len(s) |-> UpperChar(s[k])]

\* the header_line branch: years_field, holder, header_prefix and the
\* violation list after the format checks of the copyright line
ParseHeader(rel_path, header_line, viols) ==
    IF ~Falsy(header_line)
    THEN LET header_match == HEADER_REGEX(Strip(Val(header_line))) IN
         IF header_match.ok
         THEN IF Strip(header_match.holder) = <<>>
              THEN [years_field |-> Some(header_match.years),
                    holder |-> Some(header_match.holder),
                    header_prefix |-> None,
                    viols |-> Append(viols,
                                     PlainViolation(rel_path, "MissingHolder"))]
              ELSE [years_field |-> Some(header_match.years),
                    holder |-> Some(header_match.holder),
                    header_prefix |-> Some(header_match.prefix),
                    viols |-> viols]
         ELSE [years_field |-> None, holder |-> None, header_prefix |-> None,
               viols |-> Append(viols, PlainViolation(rel_path, "HeaderFormat"))]
    ELSE [years_field |-> None, holder |-> None, header_prefix |-> None,
          viols |-> viols]

\* the license_line branch and the prefix comparison: license_ok and the
\* violation list after them
CheckLicense_InsertsFirst(rel_path, license_line, header_prefix, viols) ==
    LET present == ~Falsy(license_line)
        license_match == IF present THEN LICENSE_REGEX(Strip(Val(license_line)))
                         ELSE NoMatch
        license_ok == /\ present
                      /\ license_match.ok
                      /\ (IsNone(header_prefix)
                          \/ license_match.prefix = Val(header_prefix))
        v1 == IF present /\ ~license_match.ok
              THEN Append(viols, PlainViolation(rel_path, "LicenseFormat"))
              ELSE viols
        v2 == IF ~IsNone(header_prefix) /\ present /\ ~license_ok
              THEN <<PlainViolation(rel_path, "PrefixMismatch")>> \o v1
              ELSE v1
    IN [license_ok |-> license_ok, viols |-> v2]

CheckLicense_ValidDespitePrefix(rel_path, license_line, header_prefix, viols) ==
    LET present == ~Falsy(license_line)
        license_match == IF present THEN LICENSE_REGEX(Strip(Val(license_line)))
                         ELSE NoMatch
        license_ok == present /\ license_match.ok
        v1 == IF present /\ ~license_match.ok
              THEN Append(viols, PlainViolation(rel_path, "LicenseFormat"))
              ELSE viols
        v2 == IF /\ ~IsNone(header_prefix)
                 /\ present
                 /\ license_match.ok
                 /\ license_match.prefix # Val(header_prefix)
              THEN Append(v1, PlainViolation(rel_path, "PrefixMismatch"))
              ELSE v1
    IN [license_ok |-> license_ok, viols |-> v2]

CheckLicense(rel_path, license_line, header_prefix, viols) ==
    LET present == ~Falsy(license_line)
        license_match == IF present THEN LICENSE_REGEX(Strip(Val(license_line)))
                         ELSE NoMatch
        license_ok == /\ present
                      /\ license_match.ok
                      /\ (IsNone(header_prefix)
                          \/ license_match.prefix = Val(header_prefix))
        v1 == IF present /\ ~license_match.ok
              THEN Append(viols, PlainViolation(rel_path, "LicenseFormat"))
              ELSE viols
        v2 == IF ~IsNone(header_prefix) /\ present /\ ~license_ok
              THEN Append(v1, PlainViolation(rel_path, "PrefixMismatch"))
              ELSE v1
    IN [license_ok |-> license_ok, viols |-> v2]

\* which rule set main applies to a status: "new", "modified" or "none"
RuleFor(status) ==
    LET st == Upper(status) IN
    IF st = <<"A">> THEN "new"
    ELSE IF st = <<"M">> THEN "modified"
    ELSE IF st = <<"C">> THEN "modified"
    ELSE "none"

\* the violation list after the checks of one file that has a header line;
\* log is what git log answers if get_creation_year is called
CheckFile(status, rel_path, header_line, license_line, log, cur_year, viols) ==
    LET h == ParseHeader(rel_path, header_line, viols)
        l == CheckLicense(rel_path, license_line, h.header_prefix, h.viols)
    IN IF RuleFor(status) = "new"
       THEN validate_new_file(rel_path, h.years_field, l.license_ok, cur_year,
                              header_line, h.holder, l.viols)
       ELSE IF RuleFor(status) = "modified"
       THEN validate_modified_file(rel_path, h.years_field, l.license_ok,
                                   get_creation_year(log), cur_year,
                                   header_line, h.holder, l.viols)
       ELSE l.viols

\* return 1 if violations else 0
ExitCode_Inverted(viols) == IF viols # <<>> THEN 0 ELSE 1

ExitCode(viols) == IF viols # <<>> THEN 1 ELSE 0

(***************************************************************************)
(* The inputs explored: years, paths, file contents, answers of git.       *)
(***************************************************************************)
Years == 2024..(2024 + YearSpan)
LastYear == 2024 + YearSpan

\* the path of the i-th changed file
PathOf(i) == <<"d/">> \o FormatInt(i) \o <<IF i % 2 = 1 THEN ".py" ELSE ".c">>

CopyrightLine(prefix, years, tail) ==
    <<prefix, " ", "SPDX-FileCopyrightText:", " ">> \o years \o tail \o <<"\n">>

LicenseLine(prefix, tail) ==
    <<prefix, " ", "SPDX-License-Identifier:">> \o tail \o <<"\n">>

Acme == <<" ", "Acme", " ", "Corp">>
MIT == <<" ", "MIT">>

\* file contents: a file is the sequence of its lines
Files == {
    \* compliant for a file created this year
    <<CopyrightLine("#", FormatInt(LastYear), Acme), LicenseLine("#", MIT)>>,
    \* last year's header, no license line
    <<CopyrightLine("#", FormatInt(LastYear - 1), Acme), <<"import", "\n">>>>,
    \* a range, and a license line with the other comment prefix
    <<CopyrightLine("//", RangeText(LastYear - 1, LastYear), Acme),
      LicenseLine("#", MIT)>>,
    \* the license line above the copyright line
    <<LicenseLine("#", MIT), CopyrightLine("#", FormatInt(LastYear), Acme)>>,
    \* a byte-order mark, a blank line between the two, identical bounds
    <<<<"BOM">> \o CopyrightLine("//", RangeText(LastYear, LastYear), Acme),
      <<"\n">>, LicenseLine("//", MIT)>>,
    \* no holder, only blanks after the year, and the other comment prefix
    <<CopyrightLine("#", FormatInt(LastYear), <<" ", " ">>),
      LicenseLine("//", MIT)>>,
    \* no SPDX header at all
    <<<<"import", " ", "os", "\n">>>>,
    \* an empty file
    <<>>,
    \* a compliant header that starts on line 11
    [i \in 1..HeaderLines |-> <<"import", " ", "os", "\n">>]
        \o <<CopyrightLine("#", FormatInt(LastYear), Acme), LicenseLine("#", MIT)>>,
    \* a copyright line that ends after the year, without a holder
    <<CopyrightLine("#", FormatInt(LastYear), <<>>), LicenseLine("#", MIT)>> }

ReadOutcomes == {"ok", "FileNotFoundError", "UnicodeDecodeError",
                 "PermissionError"}

\* answers of git log --diff-filter=A --follow --format=%ad --date=format:%Y
GitLogs == { [ok |-> FALSE, lines |-> <<>>],
             [ok |-> TRUE, lines |-> <<>>],
             [ok |-> TRUE,
              lines |-> <<FormatInt(LastYear), FormatInt(LastYear - 1)>>] }

DiffStatuses == { <<"A">>, <<"M">>, <<"C", "0", "7", "5">>,
                  <<"R", "1", "0", "0">> }

\* the line of git diff --name-status for the i-th changed file
DiffLine(status, i) ==
    IF status[1] \in {"C", "R"}
    THEN <<status, <<"old/">> \o FormatInt(i), PathOf(i)>>
    ELSE <<status, PathOf(i)>>

DiffOutputs ==
    UNION { { [i \in 1..n |-> DiffLine(st[i], i)] :
              st \in [1..n -> DiffStatuses] } : n \in 0..MaxFiles }

LsOutputs == { [i \in 1..n |-> PathOf(i)] : n \in 0..MaxFiles }

\* the --include and --exclude lists explored
PatternArgs == { << <<>>, <<>> >>,
                 << << <<"*", ".py">> >>, <<>> >>,
                 << <<>>, << <<"d/", "*", ".py">>, <<"*", ".h">> >> >> }

(***************************************************************************)
(* main                                                                    *)
(***************************************************************************)
NoLog == [ok |-> FALSE, lines |-> <<>>]

NoLast == [status |-> <<>>, path |-> <<>>, read |-> "", file |-> <<>>,
           header_line |-> None, license_line |-> None, log |-> NoLog]

NoCall == [fn |-> "", path |-> <<>>, years_field |-> None,
           license_ok |-> FALSE, creation_year |-> None, cur_year |-> 0,
           header_line |-> None, holder |-> None, viols |-> <<>>]

Init ==
    /\ pc = "start"
    /\ check_all_files \in BOOLEAN
    /\ current_year \in {LastYear - 1, LastYear}
    /\ \E p \in PatternArgs : include_patterns = p[1] /\ exclude_patterns = p[2]
    /\ holder_pattern = None
    /\ changed = <<>>
    /\ idx = 0
    /\ violations = <<>>
    /\ checked_count = 0
    /\ skipped_count = 0
    /\ passed_count = 0
    /\ ret = None
    /\ exc = ""
    /\ rev_parse = ""
    /\ trace = <<>>
    /\ last = NoLast
    /\ call = NoCall
    /\ result = <<>>

args == <<check_all_files, current_year, include_patterns, exclude_patterns,
          holder_pattern>>
counters == <<checked_count, skipped_count, passed_count>>

\* run_git(["rev-parse", base_ref]) raises: return 2
BaseUnresolved ==
    /\ pc = "start"
    /\ ~check_all_files
    /\ rev_parse' = "failed"
    /\ pc' = "returned"
    /\ ret' = Some(2)
    /\ UNCHANGED <<args, changed, idx, violations, counters, exc, trace, last,
                   call, result>>

\* run_git raises inside list_changed_files or list_all_files
ListingRaises ==
    /\ pc = "start"
    /\ rev_parse' = IF check_all_files THEN rev_parse ELSE "ok"
    /\ pc' = "raised"
    /\ exc' = "RuntimeError"
    /\ UNCHANGED <<args, changed, idx, violations, counters, ret, trace, last,
                   call, result>>

\* the change list is there: return 0 if it is empty, else enter the loop
EnterLoop(entries) ==
    /\ rev_parse' = IF check_all_files THEN rev_parse ELSE "ok"
    /\ changed' = entries
    /\ IF entries = <<>>
       THEN pc' = "returned" /\ ret' = Some(0)
       ELSE pc' = "loop" /\ ret' = ret
    /\ UNCHANGED <<args, idx, violations, counters, exc, trace, last, call,
                   result>>

ListChanged ==
    /\ pc = "start"
    /\ ~check_all_files
    /\ \E diff_output \in DiffOutputs : EnterLoop(list_changed_files(diff_output))

ListAll ==
    /\ pc = "start"
    /\ check_all_files
    /\ \E ls_output \in LsOutputs : EnterLoop(list_all_files(ls_output))

InLoop == pc = "loop" /\ idx < Len(changed)
status == changed[idx + 1][1]
rel_path == changed[idx + 1][2]

NotIncluded == include_patterns # <<>> /\ ~AnyMatch(rel_path, include_patterns)
Excluded == exclude_patterns # <<>> /\ AnyMatch(rel_path, exclude_patterns)

SkipAfter_AlsoChecked(why, read, file) ==
    /\ skipped_count' = skipped_count + 1
    /\ checked_count' = checked_count + 1
    /\ idx' = idx + 1
    /\ trace' = Append(trace, [what |-> why, added |-> 0])
    /\ last' = [NoLast EXCEPT !.status = status, !.path = rel_path,
                              !.read = read, !.file = file]
    /\ UNCHANGED <<args, pc, changed, violations, passed_count, ret, exc,
                   rev_parse, call, result>>

SkipAfter(why, read, file) ==
    /\ skipped_count' = skipped_count + 1
    /\ idx' = idx + 1
    /\ trace' = Append(trace, [what |-> why, added |-> 0])
    /\ last' = [NoLast EXCEPT !.status = status, !.path = rel_path,
                              !.read = read, !.file = file]
    /\ UNCHANGED <<args, pc, changed, violations, checked_count, passed_count,
                   ret, exc, rev_parse, call, result>>

Skip(why) == SkipAfter(why, "", <<>>)

SkipNotIncluded ==
    /\ InLoop
    /\ NotIncluded
    /\ Skip("skip:include")

SkipExcluded ==
    /\ InLoop
    /\ ~NotIncluded
    /\ Excluded
    /\ Skip("skip:exclude")

\* path_obj.is_dir() answers True
SkipDirectory ==
    /\ InLoop
    /\ ~NotIncluded
    /\ ~Excluded
    /\ Skip("skip:dir")

\* what the collaborators may answer for one path: the outcome of open(),
\* the content read when it succeeds, and the answer of git log for the
\* path (git log is asked only for the statuses handled as modified).
Answers(st) ==
    { [read |-> r, file |-> <<>>, log |-> NoLog] : r \in ReadOutcomes \ {"ok"} }
    \cup { [read |-> "ok", file |-> f, log |-> g] :
             f \in Files,
             g \in IF RuleFor(st) = "modified" THEN GitLogs ELSE {NoLog} }

\* a file of another holder, with a stale year and no license line
OtherHolderFile ==
    <<CopyrightLine("#", FormatInt(LastYear - 1),
                    <<" ", "Alice", " ", "Corporation">>),
      <<"import", "\n">>>>

\* with a holder filter, files of another holder are among the answers
HolderAnswers(st) ==
    Answers(st)
    \cup { [read |-> "ok", file |-> OtherHolderFile, log |-> g] :
             g \in IF RuleFor(st) = "modified" THEN GitLogs ELSE {NoLog} }

Offered(st) == IF IsNone(holder_pattern) THEN Answers(st) ELSE HolderAnswers(st)

\* extract_header_lines for every answer explored, computed once
Extracted ==
    [a \in UNION {HolderAnswers(st) : st \in DiffStatuses} |->
        extract_header_lines(a.read, a.file)]

\* the holder filter: a holder glob is configured, the header line parses
\* and its holder does not match the glob
HolderIgnored_NoFilter(pattern, header_line) == FALSE

HolderIgnored(pattern, header_line) ==
    IF IsNone(pattern) \/ Falsy(header_line) THEN FALSE
    ELSE LET header_match == HEADER_REGEX(Strip(Val(header_line))) IN
         IF ~header_match.ok THEN FALSE
         ELSE ~fnmatch(Strip(header_match.holder), Val(pattern))

\* open() raises an error extract_header_lines does not catch
ReadRaises ==
    /\ InLoop
    /\ ~NotIncluded
    /\ ~Excluded
    /\ \E a \in Offered(status) :
         LET x == Extracted[a] IN
         /\ x.raised # ""
         /\ pc' = "raised"
         /\ exc' = x.raised
    /\ UNCHANGED <<args, changed, idx, violations, counters, ret, rev_parse,
                   trace, last, call, result>>

\* no header line was found
SkipNoHeader ==
    /\ InLoop
    /\ ~NotIncluded
    /\ ~Excluded
    /\ \E a \in Offered(status) :
         LET x == Extracted[a] IN
         /\ x.raised = ""
         /\ Falsy(x.lines[1])
         /\ SkipAfter("skip:noheader", a.read, a.file)

PassedAfter_Always(passed, before, after) == passed + 1

\* passed_count += 1 unless the file added new violations
PassedAfter(passed, before, after) ==
    IF Len(after) > Len(before) THEN passed ELSE passed + 1

\* a header line was found: the file is checked
CheckEntry ==
    /\ InLoop
    /\ ~NotIncluded
    /\ ~Excluded
    /\ \E a \in Offered(status) :
         LET x == Extracted[a]
             after == CheckFile(status, rel_path, x.lines[1], x.lines[2],
                                a.log, current_year, violations)
         IN
         /\ x.raised = ""
         /\ ~Falsy(x.lines[1])
         /\ ~HolderIgnored(holder_pattern, x.lines[1])
         /\ checked_count' = checked_count + 1
         /\ violations' = after
         /\ passed_count' = PassedAfter(passed_count, violations, after)
         /\ trace' = Append(trace, [what |-> RuleFor(status),
                                    added |-> Len(after) - Len(violations)])
         /\ last' = [status |-> status, path |-> rel_path, read |-> a.read,
                     file |-> a.file, header_line |-> x.lines[1],
                     license_line |-> x.lines[2], log |-> a.log]
    /\ idx' = idx + 1
    /\ UNCHANGED <<args, pc, changed, skipped_count, ret, exc, rev_parse, call,
                   result>>

\* the holder of the file does not match --holder: the file is ignored
IgnoreHolderMismatch ==
    /\ InLoop
    /\ ~NotIncluded
    /\ ~Excluded
    /\ \E a \in Offered(status) :
         LET x == Extracted[a] IN
         /\ x.raised = ""
         /\ ~Falsy(x.lines[1])
         /\ HolderIgnored(holder_pattern, x.lines[1])
         /\ skipped_count' = skipped_count + 1
         /\ trace' = Append(trace, [what |-> "skip:holder", added |-> 0])
         /\ last' = [status |-> status, path |-> rel_path, read |-> a.read,
                     file |-> a.file, header_line |-> x.lines[1],
                     license_line |-> x.lines[2], log |-> a.log]
    /\ idx' = idx + 1
    /\ UNCHANGED <<args, pc, changed, violations, checked_count, passed_count,
                   ret, exc, rev_parse, call, result>>

\* the loop is over: return 1 if violations else 0
Finish ==
    /\ pc = "loop"
    /\ idx = Len(changed)
    /\ pc' = "returned"
    /\ ret' = Some(ExitCode(violations))
    /\ UNCHANGED <<args, changed, idx, violations, counters, exc, rev_parse,
                   trace, last, call, result>>

Next ==
    \/ BaseUnresolved
    \/ ListingRaises
    \/ ListChanged
    \/ ListAll
    \/ SkipNotIncluded
    \/ SkipExcluded
    \/ SkipDirectory
    \/ ReadRaises
    \/ SkipNoHeader
    \/ CheckEntry
    \/ Finish

Spec == Init /\ [][Next]_vars

(***************************************************************************)
(* main with the holder filter (--holder), in diff mode                    *)
(***************************************************************************)
HolderPatterns == { <<"Acme", "*">>, <<"*", "Corp">> }

InitHolder ==
    /\ pc = "start"
    /\ check_all_files = FALSE
    /\ current_year = LastYear
    /\ include_patterns = <<>>
    /\ exclude_patterns = <<>>
    /\ holder_pattern \in { Some(p) : p \in HolderPatterns }
    /\ changed = <<>>
    /\ idx = 0
    /\ violations = <<>>
    /\ checked_count = 0
    /\ skipped_count = 0
    /\ passed_count = 0
    /\ ret = None
    /\ exc = ""
    /\ rev_parse = ""
    /\ trace = <<>>
    /\ last = NoLast
    /\ call = NoCall
    /\ result = <<>>

NextHolder ==
    \/ BaseUnresolved
    \/ ListingRaises
    \/ ListChanged
    \/ SkipDirectory
    \/ ReadRaises
    \/ SkipNoHeader
    \/ IgnoreHolderMismatch
    \/ CheckEntry
    \/ Finish

SpecHolder == InitHolder /\ [][NextHolder]_vars

(***************************************************************************)
(* The rule engine on its own: validate_new_file and                       *)
(* validate_modified_file called directly, as the unit tests call them.    *)
(***************************************************************************)
SingleFields == { FormatInt(y) : y \in Years }
RangeFields == { RangeText(a, b) : a \in Years, b \in Years }
YearFields == SingleFields \cup RangeFields

\* a violation of an earlier file, already in the list that is passed in
Earlier == PlainViolation(PathOf(1), "HeaderFormat")

\* the header line and the holder that come with a year field
HeaderArgs(years_field) ==
    IF IsNone(years_field)
    THEN { <<None, None>>,
           <<Some(Strip(CopyrightLine("#", FormatInt(LastYear), <<>>))), None>> }
    ELSE { <<None, None>>,
           <<Some(Strip(CopyrightLine("//", Val(years_field), Acme))),
             Some(Strip(Acme))>> }

Calls ==
    { [fn |-> fn, path |-> PathOf(2), years_field |-> yf, license_ok |-> lic,
       creation_year |-> cy, cur_year |-> cur, header_line |-> hh[1],
       holder |-> hh[2], viols |-> vs] :
        fn \in {"validate_new_file", "validate_modified_file"},
        yf \in {None} \cup { Some(f) : f \in YearFields },
        lic \in BOOLEAN,
        cy \in {None} \cup { Some(y) : y \in Years },
        cur \in Years,
        hh \in UNION { HeaderArgs(f) : f \in {None} \cup { Some(g) : g \in YearFields } },
        vs \in { <<>>, <<Earlier>> } }

InitRules ==
    /\ pc = "call"
    /\ check_all_files = FALSE
    /\ current_year = LastYear
    /\ include_patterns = <<>>
    /\ exclude_patterns = <<>>
    /\ holder_pattern = None
    /\ changed = <<>>
    /\ idx = 0
    /\ violations = <<>>
    /\ checked_count = 0
    /\ skipped_count = 0
    /\ passed_count = 0
    /\ ret = None
    /\ exc = ""
    /\ rev_parse = ""
    /\ trace = <<>>
    /\ last = NoLast
    /\ call \in { c \in Calls :
                    /\ <<c.header_line, c.holder>> \in HeaderArgs(c.years_field)
                    /\ c.fn = "validate_new_file" => IsNone(c.creation_year) }
    /\ result = call.viols

CallNew ==
    /\ pc = "call"
    /\ call.fn = "validate_new_file"
    /\ result' = validate_new_file(call.path, call.years_field, call.license_ok,
                                   call.cur_year, call.header_line, call.holder,
                                   call.viols)
    /\ pc' = "applied"
    /\ UNCHANGED <<args, changed, idx, violations, counters, ret, exc, rev_parse,
                   trace, last, call>>

CallModified ==
    /\ pc = "call"
    /\ call.fn = "validate_modified_file"
    /\ result' = validate_modified_file(call.path, call.years_field,
                                        call.license_ok, call.creation_year,
                                        call.cur_year, call.header_line,
                                        call.holder, call.viols)
    /\ pc' = "applied"
    /\ UNCHANGED <<args, changed, idx, violations, counters, ret, exc, rev_parse,
                   trace, last, call>>

\* the violations the call appended to the list it was given
AppendedByCall == SubSeq(result, Len(call.viols) + 1, Len(result))

\* the header line with the years and the holder of an "Expected:" line
FixedHeader(header_line, expected) ==
    IF Falsy(header_line) THEN header_line
    ELSE Some(<<Val(header_line)[1], " ", "SPDX-FileCopyrightText:", " ">>
              \o expected.years \o <<" ">> \o expected.holder)

\* the call reported exactly one year violation: the contributor replaces
\* the header by the "Expected:" line of that violation and the file is
\* validated again, with the same status, first-introduced year and current
\* year; idx counts the rounds of fixing
FixHeader ==
    /\ pc = "applied"
    /\ idx = 0
    /\ ~Falsy(call.header_line)
    /\ Len(SelectSeq(AppendedByCall, LAMBDA v : v.kind \in YearKinds)) = 1
    /\ LET v == SelectSeq(AppendedByCall, LAMBDA w : w.kind \in YearKinds)[1]
           expected == Val(v.expected)
       IN call' = [call EXCEPT !.years_field = Some(expected.years),
                               !.header_line = FixedHeader(call.header_line,
                                                           expected)]
    /\ result' = call.viols
    /\ idx' = 1
    /\ pc' = "call"
    /\ UNCHANGED <<args, changed, violations, counters, ret, exc, rev_parse,
                   trace, last>>

NextRules == CallNew \/ CallModified \/ FixHeader

SpecRules == InitRules /\ [][NextRules]_vars

(***************************************************************************)
(* Properties.                                                             *)
(***************************************************************************)
Applied == pc = "applied"
IsNew == call.fn = "validate_new_file"
IsModified == call.fn = "validate_modified_file"

\* the violations a direct call appended to the list it was given
Appended == SubSeq(result, Len(call.viols) + 1, Len(result))

Kinds(vs) == [k \in 1..Len(vs) |-> vs[k].kind]

IsYearViolation(v) == v.kind \in YearKinds
YearViolations(vs) == SelectSeq(vs, IsYearViolation)

HasHeader == ~Falsy(call.header_line) /\ ~Falsy(call.holder)

\* the years of the "Expected:" line of a violation
ExpectedYears(v) == Val(v.expected).years

\* C1: when main returns, it returns 2 exactly when diff mode is used and
\* the base revision could not be resolved; otherwise every entry of the
\* change list has been consumed (none, for an empty list) and it returns 0
\* when the violation list is empty and 1 when it is not.
C1_ExitCode ==
    pc = "returned" =>
        /\ ret \in {Some(0), Some(1), Some(2)}
        /\ (ret = Some(2)) <=> (~check_all_files /\ rev_parse = "failed")
        /\ ret # Some(2) =>
             /\ idx = Len(changed)
             /\ (ret = Some(0)) <=> (violations = <<>>)
             /\ (ret = Some(1)) <=> (violations # <<>>)

C1_Witness ==
    /\ pc = "returned"
    /\ ret = Some(1)
    /\ Len(changed) >= 2
    /\ Len(violations) >= 2

\* C2: a run that is over either returned 2 for the unresolvable base
\* revision before any entry was consumed, or returned after consuming every
\* entry of the change list; no error leaves main.
C2_AllOrNothing ==
    pc \in {"returned", "raised"} =>
        /\ pc = "returned"
        /\ \/ ret = Some(2) /\ rev_parse = "failed" /\ idx = 0
           \/ ret \in {Some(0), Some(1)} /\ idx = Len(changed)

\* C3 as stated: an added file with a single year equal to the current year
\* gets zero violations from validate_new_file.
C3_NoViolation ==
    (Applied /\ IsNew /\ HasHeader
     /\ call.years_field = Some(FormatInt(call.cur_year)))
        => Appended = <<>>

\* C3 as amended: an added file with a single year equal to the current year
\* gets no year violation from validate_new_file, and zero violations when
\* its license line is valid.
C3_NoViolationIfLicensed ==
    (Applied /\ IsNew /\ HasHeader
     /\ call.years_field = Some(FormatInt(call.cur_year)))
        => /\ YearViolations(Appended) = <<>>
           /\ call.license_ok => Appended = <<>>
           /\ result = call.viols \o Appended

C3_Witness ==
    /\ Applied /\ IsNew /\ HasHeader
    /\ call.years_field = Some(FormatInt(call.cur_year))
    /\ call.license_ok
    /\ result = <<Earlier>>

\* C4 as stated: an added file whose year field is a range gets exactly one
\* violation, the "single year" one.
C4_OneViolation ==
    (Applied /\ IsNew /\ HasHeader
     /\ call.years_field \in { Some(f) : f \in RangeFields })
        => /\ Len(Appended) = 1
           /\ Appended[1].kind = "NewFileRange"

\* C4 as amended: an added file whose year field is a range gets exactly one
\* year violation, the "single year" one, and it is the only violation when
\* the license line is valid.
C4_OneYearViolation ==
    (Applied /\ IsNew /\ HasHeader
     /\ call.years_field \in { Some(f) : f \in RangeFields })
        => /\ Kinds(YearViolations(Appended)) = <<"NewFileRange">>
           /\ Appended[1].kind = "NewFileRange"
           /\ call.license_ok => Len(Appended) = 1

C4_Witness ==
    /\ Applied /\ IsNew /\ HasHeader
    /\ call.license_ok
    /\ \E a \in Years : /\ a < call.cur_year
                        /\ call.years_field = Some(RangeText(a, call.cur_year))
    /\ Kinds(Appended) = <<"NewFileRange">>

\* the violation that tells a new file to carry the current year: it names
\* the year, quotes the header line and proposes the line with the current
\* year and the holder of the file
IsNewFileYear(v) ==
    /\ v.kind = "NewFileYear"
    /\ v.cited = FormatInt(call.cur_year)
    /\ v.current = Strip(Val(call.header_line))
    /\ v.expected = Some([years |-> FormatInt(call.cur_year),
                          holder |-> Val(call.holder)])

OtherSingleYear ==
    \E y \in Years : y # call.cur_year /\ call.years_field = Some(FormatInt(y))

\* C5 as stated: an added file with a single year other than the current
\* year gets exactly one violation; it cites the current year, the current
\* line and the corrected line with the current year and the holder.
C5_OneViolation ==
    (Applied /\ IsNew /\ HasHeader /\ OtherSingleYear)
        => /\ Len(Appended) = 1
           /\ IsNewFileYear(Appended[1])

\* C5 as amended: an added file with a single year other than the current
\* year gets exactly one year violation; it cites the current year, the
\* current line and the corrected line with the current year and the holder,
\* and it is the only violation when the license line is valid.
C5_OneYearViolation ==
    (Applied /\ IsNew /\ HasHeader /\ OtherSingleYear)
        => /\ Len(YearViolations(Appended)) = 1
           /\ IsNewFileYear(Appended[1])
           /\ call.license_ok => Len(Appended) = 1

C5_Witness ==
    /\ Applied /\ IsNew /\ HasHeader
    /\ call.license_ok
    /\ call.years_field = Some(FormatInt(call.cur_year - 1))
    /\ Len(Appended) = 1

\* C6: a modified file with a single year before the current year gets
\* exactly one year violation; it recommends the range introduced-current
\* when the first-introduced year is known and before the current year, and
\* the bare current year when the first-introduced year is unknown.
C6_StaleSingleYear ==
    \A y \in Years :
        (Applied /\ IsModified /\ y < call.cur_year
         /\ call.years_field = Some(FormatInt(y)))
        => LET yv == YearViolations(Appended) IN
           /\ Len(yv) = 1
           /\ \A c \in Years :
                (call.creation_year = Some(c) /\ c < call.cur_year)
                => /\ yv[1].kind = "Predates"
                   /\ yv[1].cited = RangeText(c, call.cur_year)
                   /\ ExpectedYears(yv[1]) = RangeText(c, call.cur_year)
           /\ IsNone(call.creation_year)
                => /\ yv[1].kind = "YearShouldBe"
                   /\ ExpectedYears(yv[1]) = FormatInt(call.cur_year)

C6_Witness ==
    /\ Applied /\ IsModified
    /\ \E y \in Years, c \in Years :
         /\ c < y /\ y < call.cur_year
         /\ call.years_field = Some(FormatInt(y))
         /\ call.creation_year = Some(c)
         /\ Len(Appended) >= 1
         /\ ExpectedYears(Appended[1]) = RangeText(c, call.cur_year)

\* C7: a modified file with a range whose start is after its end, whose end
\* is not the current year and whose start is not the known first-introduced
\* year gets the three violations invalid range, range end, range start in
\* one pass.
C7_Cumulative ==
    \A a \in Years, b \in Years, c \in Years :
        (Applied /\ IsModified /\ a > b /\ b # call.cur_year /\ a # c
         /\ call.years_field = Some(RangeText(a, b))
         /\ call.creation_year = Some(c))
        => Kinds(YearViolations(Appended))
             = <<"InvalidRange", "RangeEnd", "RangeStart">>

C7_Witness ==
    /\ Applied /\ IsModified
    /\ \E a \in Years, b \in Years :
         a > b /\ call.years_field = Some(RangeText(a, b))
    /\ Kinds(Appended) = <<"InvalidRange", "RangeEnd", "RangeStart">>

\* C8: a modified file with a single year equal to the current year gets
\* the violation recommending the range introduced-current when the
\* first-introduced year is known and before the current year, and no year
\* violation when the first-introduced year is the current year.
C8_CurrentSingleYear ==
    (Applied /\ IsModified
     /\ call.years_field = Some(FormatInt(call.cur_year)))
    => LET yv == YearViolations(Appended) IN
       /\ \A c \in Years :
            (call.creation_year = Some(c) /\ c < call.cur_year)
            => /\ Kinds(yv) = <<"EarlierCreation">>
               /\ yv[1].cited = RangeText(c, call.cur_year)
               /\ ExpectedYears(yv[1]) = RangeText(c, call.cur_year)
       /\ call.creation_year = Some(call.cur_year) => yv = <<>>

C8_Witness ==
    /\ Applied /\ IsModified
    /\ call.years_field = Some(FormatInt(call.cur_year))
    /\ call.creation_year = Some(call.cur_year - 1)
    /\ Kinds(Appended) = <<"EarlierCreation">>

IsIdenticalRange(v) ==
    /\ v.kind = "IdenticalRange"
    /\ ExpectedYears(v) = FormatInt(call.cur_year)

CurrentToCurrent ==
    /\ Applied /\ IsModified
    /\ call.license_ok
    /\ call.years_field = Some(RangeText(call.cur_year, call.cur_year))

\* C9 as stated: a modified file with the range current-current and a valid
\* license line gets exactly one violation, the identical-bounds one citing
\* the single year, whatever the first-introduced year.
C9_OnlyIdentical ==
    CurrentToCurrent
        => /\ Len(Appended) = 1
           /\ IsIdenticalRange(Appended[1])

\* C9 as amended: a modified file with the range current-current and a valid
\* license line gets the identical-bounds violation citing the single year;
\* it is the only violation when the first-introduced year is unknown or is
\* the current year, and it follows the range-start violation otherwise.
C9_IdenticalAndStart ==
    CurrentToCurrent
        => /\ IsIdenticalRange(Appended[Len(Appended)])
           /\ IF \/ IsNone(call.creation_year)
                 \/ call.creation_year = Some(call.cur_year)
              THEN Kinds(Appended) = <<"IdenticalRange">>
              ELSE Kinds(Appended) = <<"RangeStart", "IdenticalRange">>

C9_Witness ==
    /\ CurrentToCurrent
    /\ call.creation_year = Some(call.cur_year)
    /\ Kinds(Appended) = <<"IdenticalRange">>

\* the entry the loop handled last got as far as the rule engine
LastChecked ==
    /\ trace # <<>>
    /\ trace[Len(trace)].what \in {"new", "modified", "none"}

\* the violation list before the latest entry was handled
Before == SubSeq(violations, 1, Len(violations) - trace[Len(trace)].added)

\* C10: a checked file reported as copied or renamed has received the
\* violations a modified file with the same header lines, first-introduced
\* year and current year receives.
C10_LikeModified ==
    (LastChecked /\ Upper(last.status) \in { <<"C">>, <<"R">> })
        => violations = CheckFile(<<"M">>, last.path, last.header_line,
                                  last.license_line, last.log, current_year,
                                  Before)

(***************************************************************************)
(* Properties of main with the holder filter                               *)
(***************************************************************************)
LastEntry == trace[Len(trace)]

\* the header line of the latest entry parses and its holder does not match
\* the configured glob
LastHolderDiffers ==
    /\ trace # <<>>
    /\ ~IsNone(holder_pattern)
    /\ ~Falsy(last.header_line)
    /\ HEADER_REGEX(Strip(Val(last.header_line))).ok
    /\ ~fnmatch(Strip(HEADER_REGEX(Strip(Val(last.header_line))).holder),
                Val(holder_pattern))

AllIgnored == \A i \in 1..Len(trace) : trace[i].what = "skip:holder"

LastUnreadable == last.read \in {"FileNotFoundError", "UnicodeDecodeError"}

\* the latest entry was read, and none of its first 10 lines is a copyright
\* line
WithoutCopyright ==
    [f \in Files \cup {OtherHolderFile} |->
        \A i \in 1..HeaderLines :
           i <= Len(f) => ~HEADER_REGEX(StripChars(f[i], {"BOM", "\n", "\r"})).ok]

LastWithoutCopyright == last.read = "ok" /\ WithoutCopyright[last.file]

OnlySkippedForHeader ==
    /\ trace # <<>>
    /\ \A i \in 1..Len(trace) : trace[i].what = "skip:noheader"

\* C12: the step that handles a file which is absent, not decodable or
\* without a copyright line in its first 10 lines increments the skipped
\* counter and leaves the violation list and the checked and passed counters
\* as they are; a run that only met such files returns 0.
C12_Skipped ==
    [][/\ (Len(trace') = Len(trace) + 1
            /\ (LastUnreadable' \/ LastWithoutCopyright'))
          => /\ trace'[Len(trace')].what = "skip:noheader"
             /\ skipped_count' = skipped_count + 1
             /\ checked_count' = checked_count
             /\ passed_count' = passed_count
             /\ violations' = violations
       /\ (pc' = "returned" /\ OnlySkippedForHeader') => ret' = Some(0)]_vars

\* an undecodable file and a file whose header starts on line 11 were skipped
C12_Witness ==
    /\ pc = "returned"
    /\ OnlySkippedForHeader
    /\ Len(trace) >= 2
    /\ LastWithoutCopyright
    /\ Len(last.file) > HeaderLines
    /\ skipped_count = Len(trace)
    /\ ret = Some(0)

C12_WitnessUnreadable ==
    /\ trace # <<>>
    /\ LastUnreadable
    /\ LastEntry.what = "skip:noheader"

(***************************************************************************)
(* Properties of the passed counter                                        *)
(***************************************************************************)
\* the entries to which validate_new_file or validate_modified_file was
\* applied and which appended no violation
RuledClean ==
    { i \in 1..Len(trace) :
        trace[i].what \in {"new", "modified"} /\ trace[i].added = 0 }

\* C13: the files counted as passed are exactly the files to which
\* validate_new_file or validate_modified_file was applied and which produced
\* no new violation; no file is counted as passed without a rule applied.
C13_PassedAfterRule == passed_count = Cardinality(RuledClean)

(***************************************************************************)
(* Properties of malformed copyright lines                                 *)
(***************************************************************************)
\* the line starts with a comment prefix followed by the copyright marker
Resembles(line) ==
    /\ line # <<>>
    /\ line[1] \in COMMENT_PREFIXES
    /\ SkipSpace(line, 2) <= Len(line)
    /\ line[SkipSpace(line, 2)] = "SPDX-FileCopyrightText:"

\* for each file, the first of its first 10 lines that resembles a copyright
\* line without matching the full pattern, when no line before it matches
\* the pattern; <<>> when there is none
MalformedHeader ==
    [f \in Files \cup {OtherHolderFile} |->
        LET text(i) == StripChars(f[i], {"BOM", "\n", "\r"})
            bad == { i \in 1..HeaderLines :
                       /\ i <= Len(f)
                       /\ Resembles(text(i))
                       /\ \A j \in 1..i : ~HEADER_REGEX(text(j)).ok }
        IN IF bad = {} THEN None
           ELSE Some(text(CHOOSE i \in bad : \A j \in bad : i <= j))]

AppendedByLast ==
    SubSeq(violations, Len(violations) - LastEntry.added + 1, Len(violations))

\* C14: a file read by main whose first 10 lines hold a line that resembles
\* a copyright line but fails the full pattern has been checked, with that
\* line as its header line, and has received a header format violation.
C14_MalformedIsChecked ==
    (trace # <<>> /\ last.read = "ok" /\ ~IsNone(MalformedHeader[last.file]))
        => /\ last.header_line = MalformedHeader[last.file]
           /\ LastEntry.what \in {"new", "modified", "none"}
           /\ \E i \in 1..Len(AppendedByLast) :
                 AppendedByLast[i].kind \in {"HeaderFormat", "MissingHolder"}

(***************************************************************************)
(* Direct calls of extract_header_lines                                    *)
(***************************************************************************)
MaxBody == 4

CodeLine == <<"import", " ", "os", "\n">>
BlankLine == <<" ", "\r", "\n">>

\* the lines a file is made of
LineKinds == { CopyrightLine("#", FormatInt(LastYear), Acme),
               LicenseLine("#", MIT),
               LicenseLine("//", <<" ", "GPL", "\n">>),
               BlankLine,
               CodeLine }

\* the number of lines before the lines of interest: none, or enough to
\* push them to the tenth line and beyond
PadLengths == {0, HeaderLines - 2, HeaderLines - 1, HeaderLines}

ScannedFiles ==
    { [i \in 1..k |-> filler] \o body :
        k \in PadLengths, filler \in {CodeLine, BlankLine},
        body \in UNION { [1..n -> LineKinds] : n \in 0..MaxBody } }

InitExtract ==
    /\ pc = "scan"
    /\ check_all_files = FALSE
    /\ current_year = LastYear
    /\ include_patterns = <<>>
    /\ exclude_patterns = <<>>
    /\ holder_pattern = None
    /\ changed = <<>>
    /\ idx = 0
    /\ violations = <<>>
    /\ checked_count = 0
    /\ skipped_count = 0
    /\ passed_count = 0
    /\ ret = None
    /\ exc = ""
    /\ rev_parse = ""
    /\ trace = <<>>
    /\ \E f \in ScannedFiles : last = [NoLast EXCEPT !.read = "ok", !.file = f]
    /\ call = NoCall
    /\ result = <<>>

Extract ==
    /\ pc = "scan"
    /\ pc' = "scanned"
    /\ LET x == extract_header_lines(last.read, last.file) IN
       last' = [last EXCEPT !.header_line = x.lines[1],
                            !.license_line = x.lines[2]]
    /\ UNCHANGED <<args, changed, idx, violations, counters, ret, exc,
                   rev_parse, trace, call, result>>

NextExtract == Extract

SpecExtract == InitExtract /\ [][NextExtract]_vars

(***************************************************************************)
(* Properties of extract_header_lines                                      *)
(***************************************************************************)
Scanned == pc = "scanned"

\* the i-th line of the scanned file as the loop sees it
Text(i) == StripChars(last.file[i], {"BOM", "\n", "\r"})

\* the lines the function reads
ReadLines == { i \in 1..HeaderLines : i <= Len(last.file) }

IsCopyright(i) == HEADER_REGEX(Text(i)).ok
IsLicense(i) == LICENSE_REGEX(Text(i)).ok
IsBlank(i) == Strip(Text(i)) = <<>>

\* i is the first copyright line read and j the first license line read
\* after it
FirstPair(i, j) ==
    /\ i \in ReadLines /\ j \in ReadLines /\ i < j
    /\ IsCopyright(i) /\ \A k \in 1..(i - 1) : ~IsCopyright(k)
    /\ IsLicense(j) /\ \A k \in (i + 1)..(j - 1) : ~IsLicense(k)

\* C15: extract_header_lines returns a license line only when a copyright
\* line was matched on an earlier one of the first 10 lines, and then it is
\* the first license line after the first copyright line; when only blank
\* lines separate the two, the license line is returned.
C15_LicenseAfterCopyright ==
    Scanned =>
       /\ ~IsNone(last.license_line) =>
             \E i, j \in ReadLines :
                /\ FirstPair(i, j)
                /\ last.header_line = Some(Text(i))
                /\ last.license_line = Some(Text(j))
       /\ \A i, j \in ReadLines :
             (FirstPair(i, j) /\ \A k \in (i + 1)..(j - 1) : IsBlank(k))
                => last.license_line = Some(Text(j))

\* a license line above the copyright line and another one two lines below
\* it, behind a blank line
C15_Witness ==
    /\ Scanned
    /\ \E i \in ReadLines :
          /\ i > 1 /\ IsLicense(i - 1)
          /\ FirstPair(i, i + 2) /\ IsBlank(i + 1)
          /\ Text(i - 1) # Text(i + 2)
          /\ last.license_line = Some(Text(i + 2))

\* a copyright line on the tenth line and a license line on the eleventh
C15_WitnessBeyond ==
    /\ Scanned
    /\ Len(last.file) > HeaderLines
    /\ IsCopyright(HeaderLines)
    /\ LICENSE_REGEX(StripChars(last.file[HeaderLines + 1], {"\n"})).ok
    /\ ~IsNone(last.header_line)
    /\ IsNone(last.license_line)

(***************************************************************************)
(* Properties of the violation list                                        *)
(***************************************************************************)
\* the position in the change list of the entry with this path
EntryOf(entries, path) == CHOOSE k \in 1..Len(entries) : entries[k][2] = path

\* C16: every step of main keeps the violations already in the list, in
\* place and unchanged; the violations it appends carry the path of the entry
\* being processed; and the list is ordered by the position of the entries
\* in the change list.
C16_AppendOnly ==
    [][/\ Len(violations') >= Len(violations)
       /\ SubSeq(violations', 1, Len(violations)) = violations
       /\ \A i \in (Len(violations) + 1)..Len(violations') :
             InLoop /\ violations'[i].path = rel_path
       /\ \A i, j \in 1..Len(violations') :
             i < j => EntryOf(changed', violations'[i].path)
                         <= EntryOf(changed', violations'[j].path)]_vars

\* two entries have appended violations, the later one more than one
C16_Witness ==
    /\ Len(trace) >= 2
    /\ trace[1].added >= 1
    /\ LastEntry.added >= 2
    /\ violations[1].path # violations[Len(violations)].path

(***************************************************************************)
(* Properties of the comment prefix check                                  *)
(***************************************************************************)
\* the header line of the latest entry as main parses it again
LastHeader == HEADER_REGEX(Strip(Val(last.header_line)))

\* the latest entry has a well-formed license line; its parse
LastHasLicense ==
    /\ ~Falsy(last.license_line)
    /\ LICENSE_REGEX(Strip(Val(last.license_line))).ok

LastLicense == LICENSE_REGEX(Strip(Val(last.license_line)))

CountKind(vs, kind) == Len(SelectSeq(vs, LAMBDA v : v.kind = kind))

\* the latest entry: the copyright line parses with a holder, the license
\* line is well-formed, and the two comment prefixes differ
LastPrefixesDiffer ==
    /\ LastChecked
    /\ LastHeader.ok
    /\ Strip(LastHeader.holder) # <<>>
    /\ LastHasLicense
    /\ LastLicense.prefix # LastHeader.prefix

\* the latest entry: the copyright line does not parse again, the license
\* line is well-formed
LastHeaderUnparsed ==
    /\ LastChecked
    /\ ~LastHeader.ok
    /\ LastHasLicense

\* C17: a checked file with status A, M or C whose copyright line parses
\* with a holder and whose well-formed license line has another comment
\* prefix has received the same-prefix violation first and the missing
\* license line violation last, once each; a checked file whose copyright
\* line does not parse again has received neither, and its license is valid.
C17_PrefixMismatchTwice ==
    /\ (LastPrefixesDiffer /\ Upper(last.status) \in { <<"A">>, <<"M">>, <<"C">> })
          => /\ LastEntry.added >= 2
             /\ AppendedByLast[1].kind = "PrefixMismatch"
             /\ AppendedByLast[Len(AppendedByLast)].kind = "MissingLicense"
             /\ CountKind(AppendedByLast, "PrefixMismatch") = 1
             /\ CountKind(AppendedByLast, "MissingLicense") = 1
    /\ LastHeaderUnparsed
          => /\ CountKind(AppendedByLast, "PrefixMismatch") = 0
             /\ CountKind(AppendedByLast, "MissingLicense") = 0
             /\ CheckLicense(last.path, last.license_line,
                             ParseHeader(last.path, last.header_line,
                                         <<>>).header_prefix,
                             <<>>).license_ok

\* a copied file with the mismatch has received the two violations
C17_Witness ==
    /\ LastPrefixesDiffer
    /\ Upper(last.status) = <<"C">>
    /\ CountKind(AppendedByLast, "PrefixMismatch") = 1
    /\ CountKind(AppendedByLast, "MissingLicense") = 1

\* a file whose copyright line does not parse again, with a license line of
\* the other comment prefix
C17_WitnessUnparsed ==
    /\ LastHeaderUnparsed
    /\ LastLicense.prefix # Val(last.header_line)[1]
    /\ Kinds(AppendedByLast) = <<"HeaderFormat">>

(***************************************************************************)
(* Properties of the counters                                              *)
(***************************************************************************)
SkippedEntries == { i \in 1..Len(trace) : trace[i].what \in
                      {"skip:include", "skip:exclude", "skip:dir",
                       "skip:noheader", "skip:holder"} }

CheckedEntries == { i \in 1..Len(trace) :
                      trace[i].what \in {"new", "modified", "none"} }

FailedEntries == { i \in CheckedEntries : trace[i].added > 0 }

\* C18: after any number of processed entries, checked_count plus
\* skipped_count is the number of entries processed, passed_count is at most
\* checked_count, checked_count minus passed_count is the number of processed
\* files that appended a violation, the violation list is non-empty exactly
\* when passed_count is less than checked_count, and every processed entry
\* is either skipped, passed or failed.
C18_Counters ==
    /\ Len(trace) = idx
    /\ checked_count + skipped_count = idx
    /\ passed_count <= checked_count
    /\ checked_count - passed_count = Cardinality(FailedEntries)
    /\ (violations # <<>>) <=> (passed_count < checked_count)
    /\ skipped_count = Cardinality(SkippedEntries)
    /\ checked_count = Cardinality(CheckedEntries)
    /\ SkippedEntries \cup CheckedEntries = 1..Len(trace)
    /\ SkippedEntries \cap CheckedEntries = {}

\* a run that skipped a file and failed a file
C18_Witness ==
    /\ pc = "returned"
    /\ skipped_count = 1
    /\ passed_count = 0
    /\ checked_count = 1
    /\ Cardinality(FailedEntries) = 1
    /\ violations # <<>>

\* a run that passed a file and failed a file
C18_WitnessPassed ==
    /\ pc = "returned"
    /\ passed_count = 1
    /\ checked_count = 2
    /\ Cardinality(FailedEntries) = 1

(***************************************************************************)
(* The compliant year fields of a modified file                            *)
(***************************************************************************)
\* (a) the single current year, the first-introduced year unknown or not
\* before the current year; (b) a range that ends at the current year and
\* starts earlier, the first-introduced year unknown or equal to its start
CompliantField(field, creation_year, cur_year) ==
    \/ /\ field = FormatInt(cur_year)
       /\ IsNone(creation_year) \/ Val(creation_year) >= cur_year
    \/ \E start \in Years :
          /\ start < cur_year
          /\ field = RangeText(start, cur_year)
          /\ IsNone(creation_year) \/ Val(creation_year) = start

\* C19: validate_modified_file with a present year field appends nothing
\* exactly when the license is valid and the year field is compliant in the
\* sense (a) or (b); and whatever the first-introduced year and the current
\* year of the call, some year field makes it append nothing.
C19_CompliantExactly ==
    (Applied /\ IsModified /\ ~IsNone(call.years_field))
        => /\ (Appended = <<>>)
                 <=> (call.license_ok
                      /\ CompliantField(Val(call.years_field),
                                        call.creation_year, call.cur_year))
           /\ \E f \in YearFields :
                 validate_modified_file(call.path, Some(f), TRUE,
                                        call.creation_year, call.cur_year,
                                        call.header_line, call.holder,
                                        call.viols) = call.viols

\* a range from the first-introduced year to the current year is accepted
C19_Witness ==
    /\ Applied /\ IsModified
    /\ ~IsNone(call.years_field)
    /\ Find(Val(call.years_field), "-", 1) # 0
    /\ ~IsNone(call.creation_year)
    /\ Val(call.creation_year) < call.cur_year
    /\ call.license_ok
    /\ Appended = <<>>

\* the single current year of a file first introduced later is accepted
C19_WitnessLater ==
    /\ Applied /\ IsModified
    /\ call.years_field = Some(FormatInt(call.cur_year))
    /\ ~IsNone(call.creation_year)
    /\ Val(call.creation_year) > call.cur_year
    /\ call.license_ok
    /\ Appended = <<>>

(***************************************************************************)
(* Fixing a header as the violation says                                   *)
(***************************************************************************)
\* the call validated a header that was fixed as the only year violation of
\* the call before said
AppliedToFix == Applied /\ idx = 1

\* C20: when exactly one year violation was reported for an added or a
\* modified file and the year field of the header was replaced by the year
\* field of the violation's Expected line, validating again with the same
\* first-introduced year and current year reports no year violation.
C20_FixConverges == AppliedToFix => YearViolations(Appended) = <<>>

====
